---------------------------- MODULE Spec2Model ----------------------------
(***************************************************************************)
(* A model of the certificate generator (src/src/main.rs, src/src/lib.rs). *)
(*                                                                         *)
(* The interactive context is CertApp::update, one frame at a time: every  *)
(* user input is one frame, and every frame ends with the poll of the      *)
(* thread handle.  A launched batch is a background thread that fans its   *)
(* records out over rayon's pool; each job is generate_certificate, and in *)
(* a send batch send_email after it.                                       *)
(*                                                                         *)
(* Text is a sequence of characters, a character a one-character string    *)
(* (an Arabic letter is written by its name).  Coordinates are pixels of   *)
(* the preview, integers here.                                             *)
(***************************************************************************)
EXTENDS Integers, Sequences, FiniteSets, TLC

(***************************************************************************)
(* Bounds of the model.                                                    *)
(***************************************************************************)
\* The user's inputs in one run: an import, a template, a drag, a clear, a
\* column or a slider move counts one; the first launch of a batch is free
\* and every further launch counts two.
MaxInputs == 3

(***************************************************************************)
(* Characters and text.                                                    *)
(***************************************************************************)
ArabicLetters == {"ALEF", "BEH", "LAM"}

\* Letters that join on both sides; ALEF joins only to the letter before it.
DualJoining == {"BEH", "LAM"}

Forms == {"isol", "init", "medi", "fina"}

\* The presentation form (a code point of its own) of a letter.
PresentationForm(letter, form) == letter \o "." \o form

LamAlef(form) == "LAMALEF." \o form

NonAscii ==
    ArabicLetters
    \cup {PresentationForm(l, f) : l \in ArabicLetters, f \in Forms}
    \cup {LamAlef(f) : f \in {"isol", "fina"}}

\* str::is_ascii
is_ascii(text) == \A i \in 1..Len(text) : text[i] \notin NonAscii

Rev(s) == [i \in 1..Len(s) |-> s[Len(s) + 1 - i]]

\* The contextual form of the letter at position i of text.
ContextForm(text, i) ==
    LET before == i > 1 /\ text[i - 1] \in DualJoining
        after  == /\ i < Len(text)
                  /\ text[i] \in DualJoining
                  /\ text[i + 1] \in ArabicLetters
    IN  IF before /\ after THEN "medi"
        ELSE IF before THEN "fina"
        ELSE IF after THEN "init"
        ELSE "isol"

RECURSIVE ReshapeFrom(_, _)
ReshapeFrom(text, i) ==
    IF i > Len(text) THEN <<>>
    ELSE IF text[i] \notin ArabicLetters
         THEN <<text[i]>> \o ReshapeFrom(text, i + 1)
    ELSE IF text[i] = "LAM" /\ i < Len(text) /\ text[i + 1] = "ALEF"
         THEN <<LamAlef(IF ContextForm(text, i) = "medi" THEN "fina" ELSE "isol")>>
              \o ReshapeFrom(text, i + 2)
    ELSE <<PresentationForm(text[i], ContextForm(text, i))>>
         \o ReshapeFrom(text, i + 1)

\* arabic_reshaper::arabic_reshape: every letter becomes the presentation
\* form its neighbours call for, and LAM followed by ALEF becomes one ligature.
arabic_reshape(text) == ReshapeFrom(text, 1)

fix_text(text) ==
    IF ~is_ascii(text) THEN Rev(arabic_reshape(text)) ELSE text

ToLowerChar(c) ==
    CASE c = "E" -> "e"
      [] c = "M" -> "m"
      [] c = "A" -> "a"
      [] c = "I" -> "i"
      [] c = "L" -> "l"
      [] OTHER -> c

\* str::to_lowercase
to_lowercase(s) == [i \in 1..Len(s) |-> ToLowerChar(s[i])]

\* The header that names the email column, in Arabic.
ArabicEmailHeader ==
    <<"ALEF", "LAM", "BEH", "REH", "YEH", "DAL", " ",
      "ALEF", "LAM", "ALEF", "LAM", "KAF", "TEH", "REH", "WAW", "NOON", "YEH">>

IsEmailHeader(s) ==
    to_lowercase(s) = <<"e", "m", "a", "i", "l">> \/ s = ArabicEmailHeader

\* Iterator::position: the 0-based index of the first email header, or -1.
EmailPosition(cols) ==
    IF \E i \in 1..Len(cols) : IsEmailHeader(cols[i])
    THEN (CHOOSE i \in 1..Len(cols) :
             /\ IsEmailHeader(cols[i])
             /\ \A j \in 1..(i - 1) : ~IsEmailHeader(cols[j])) - 1
    ELSE -1

\* lettre's Mailbox parse: one "@" with text on both sides.
IsMailbox(s) ==
    \E i \in 2..(Len(s) - 1) :
        /\ s[i] = "@"
        /\ \A j \in 1..Len(s) : j # i => s[j] # "@"

(***************************************************************************)
(* The CSV files the file dialog can return: a header row and the rows.    *)
(***************************************************************************)
CsvNames ==
    [headers |-> <<<<"i", "d">>, <<"n">>, <<"E", "m", "a", "i", "l">>>>,
     rows |-> << <<<<"a", "-", "b">>, <<"c">>, <<"p", "@", "x">>>>,
                 <<<<"a">>, <<"b", "-", "c">>, <<"q", "@", "x">>>>,
                 <<<<"d">>, <<>>, <<"s", "@", "x">>>>,
                 <<<<"a">>, <<"b", "-", "c">>, <<"r", "@", "x">>>> >>]

CsvArabic ==
    [headers |-> <<<<"n">>, <<"k">>>>,
     rows |-> << <<<<"LAM", "ALEF", "BEH">>, <<"1">>>>,
                 <<<<"a">>, <<"1">>>> >>]

CsvOneColumn ==
    [headers |-> <<<<"e", "m", "a", "i", "l">>>>,
     rows |-> << <<<<"p", "@", "x">>>> >>]

CsvFiles == {CsvNames, CsvArabic, CsvOneColumn}

\* import_csv keeps the rows that hold no empty field.
HasEmptyField(r) == \E i \in 1..Len(r) : r[i] = <<>>

KeptRows(rows) == SelectSeq(rows, LAMBDA r : ~HasEmptyField(r))

(***************************************************************************)
(* Geometry: TextRect, and the scaling of a region to the template's       *)
(* pixels.                                                                 *)
(***************************************************************************)
\* Preview-to-native ratio 2.5, as a fraction.
ScaleNum == 25
ScaleDen == 10

Pos2(px, py) == [x |-> px, y |-> py]

\* Pos2::default
Origin == Pos2(0, 0)

\* TextRect::default
DefaultTextRect == [p1 |-> Origin, p2 |-> Origin]

\* Where the pointer can be on the preview (even pixels scale exactly).
PointerPositions == {Pos2(0, 0), Pos2(4, 2), Pos2(2, 6)}

MinOf(a, b) == IF a <= b THEN a ELSE b

MaxOf(a, b) == IF a >= b THEN a ELSE b

Abs(v) == IF v < 0 THEN -v ELSE v

\* Pos2::min and Pos2::max, component by component.
PosMin(a, b) == Pos2(MinOf(a.x, b.x), MinOf(a.y, b.y))

PosMax(a, b) == Pos2(MaxOf(a.x, b.x), MaxOf(a.y, b.y))

\* The corners as dragged, not normalized.
TextRectAsDragged(r) == r

\* TextRect::min
TextRectMin(r) == [p1 |-> PosMin(r.p1, r.p2), p2 |-> PosMax(r.p1, r.p2)]

\* v * 2.5
Scaled(v) == (v * ScaleNum) \div ScaleDen

\* The closure of generate_certificates and send_emails: (Point, width).
ScaledRegion(r) ==
    LET points == TextRectMin(r)
    IN  <<Pos2(Scaled(points.p1.x), Scaled(points.p1.y)),
          Scaled(Abs(points.p1.x - points.p2.x))>>

ScaledPoints(rs) == [i \in 1..Len(rs) |-> ScaledRegion(rs[i])]

\* A test that finds no point at the origin.
is_zero_never(pt) == FALSE

\* skia_safe::Point::is_zero
is_zero(pt) == pt.x = 0 /\ pt.y = 0

(***************************************************************************)
(* Rendering one record.                                                   *)
(***************************************************************************)
\* Arc::default: no template bytes at all.
EmptyTemplate == ""

\* The image files the template dialog can return.
TemplateFiles == {"T1", "T2"}

\* Image::from_encoded succeeds.
Decodes(t) == t \in TemplateFiles

FontSizes == {20, 40}

DefaultFontSize == 40

NoImage == [template |-> EmptyTemplate, font_size |-> 0, paints |-> <<>>]

\* A draw_text that shapes the text with fix_text first.
draw_text_shaped(col, text, position, width) ==
    [col |-> col, text |-> fix_text(text), position |-> position, width |-> width]

\* draw_text: the text is laid out as given, right-aligned in width at position.
draw_text(col, text, position, width) ==
    [col |-> col, text |-> text, position |-> position, width |-> width]

\* The loop of generate_certificate over record.iter().zip(points), from pair i.
RECURSIVE DrawFields(_, _, _)
DrawFields(record, points, i) ==
    IF i > Len(record) \/ i > Len(points) THEN <<>>
    ELSE IF is_zero(points[i][1]) THEN DrawFields(record, points, i + 1)
    ELSE <<draw_text(i, record[i], points[i][1], points[i][2])>>
         \o DrawFields(record, points, i + 1)

\* The surface generate_certificate encodes, for a template that decodes.
RenderedImage(record, points, tmpl, fsize) ==
    [template |-> tmpl, font_size |-> fsize,
     paints |-> DrawFields(record, points, 1)]

\* A name made of the first field alone.
FileNameFirstField(record) == record[1] \o <<".", "p", "n", "g">>

\* format!("{}-{}.png", &record[0], &record[1])
FileName(record) == record[1] \o <<"-">> \o record[2] \o <<".", "p", "n", "g">>

(***************************************************************************)
(* The state.                                                              *)
(***************************************************************************)
VARIABLES
    columns,                  \* CertApp.columns
    records,                  \* CertApp.records
    rects,                    \* CertApp.rects (the colours left out)
    current_rect,             \* CertApp.current_rect, 0-based
    image,                    \* CertApp.image is Some
    template,                 \* CertApp.template
    font_size,                \* CertApp.font_size
    config,                   \* CertApp.config.email
    template_window_open,     \* CertApp.template_window_open
    certificates_window_open, \* CertApp.certificates_window_open
    send_email_window_open,   \* CertApp.send_email_window_open
    status,                   \* CertApp.status
    t_handle,                 \* CertApp.t_handle: 0 is None, b the thread of batch b
    batches,                  \* the threads spawned so far, with what each captured
    files,                    \* the output directory: file name -> image
    outbox,                   \* the messages the relay accepted
    crashed,                  \* the interactive thread panicked: the process is gone
    inputs                    \* the inputs counted so far, at most MaxInputs

vars ==
    <<columns, records, rects, current_rect, image, template, font_size, config,
      template_window_open, certificates_window_open, send_email_window_open,
      status, t_handle, batches, files, outbox, crashed, inputs>>

appVars ==
    <<columns, records, rects, current_rect, image, template, font_size, config,
      template_window_open, certificates_window_open, send_email_window_open>>

\* EmailCreds::default
DefaultCreds == [username |-> <<>>, password |-> <<>>]

SavedCreds == [username |-> <<"u", "@", "x">>, password |-> <<"s">>]

Init ==
    /\ columns = <<>>
    /\ records = <<>>
    /\ rects = <<>>
    /\ current_rect = 0
    /\ image = FALSE
    /\ template = EmptyTemplate
    /\ font_size = DefaultFontSize
    /\ config \in {DefaultCreds, SavedCreds}
    /\ template_window_open = FALSE
    /\ certificates_window_open = FALSE
    /\ send_email_window_open = FALSE
    /\ status = ""
    /\ t_handle = 0
    /\ batches = <<>>
    /\ files = [n \in {} |-> NoImage]
    /\ outbox = {}
    /\ crashed = FALSE
    /\ inputs = 0

(***************************************************************************)
(* The frame: CertApp::update.                                             *)
(***************************************************************************)
\* ui.set_enabled only ever disables: the bottom panel's buttons and slider
\* work when no window is open (email_window_open is never set).
ButtonsEnabled ==
    /\ ~template_window_open
    /\ ~certificates_window_open
    /\ ~send_email_window_open

\* The body of the "Draw Areas" window is past its two early returns.
LayoutShown == template_window_open /\ Len(rects) >= 1 /\ image

\* self.rects[self.current_rect] and self.columns[self.current_rect] index
\* out of bounds: the interactive thread panics.
LayoutPanics(open, rs, img, cur, cols) ==
    open /\ Len(rs) >= 1 /\ img /\ (cur >= Len(rs) \/ cur >= Len(cols))

\* A poll that takes every thread for finished.
is_finished_always(bs, h) == TRUE

\* JoinHandle::is_finished of the thread of batch h.
is_finished(bs, h) == bs[h].finished

\* The rest of a frame after its input set the status to st and the handle
\* to h: the window bodies, then the poll of the handle.
FrameEnd(st, h) ==
    /\ crashed' = LayoutPanics(template_window_open', rects', image',
                               current_rect', columns')
    /\ IF ~crashed' /\ h # 0 /\ is_finished(batches', h)
       THEN status' = "Finished!" /\ t_handle' = 0
       ELSE status' = st /\ t_handle' = h

\* A frame with no input.
Tick ==
    /\ ~crashed
    /\ UNCHANGED <<appVars, batches, files, outbox, inputs>>
    /\ FrameEnd(status, t_handle)

\* "Import CSV": import_csv with the file the dialog returned.
ImportCsv(f) ==
    /\ ~crashed /\ ButtonsEnabled /\ inputs < MaxInputs
    /\ columns' = f.headers
    /\ records' = KeptRows(f.rows)
    /\ rects' = rects \o [i \in 1..Len(f.headers) |-> DefaultTextRect]
    /\ inputs' = inputs + 1
    /\ UNCHANGED <<current_rect, image, template, font_size, config,
                   template_window_open, certificates_window_open,
                   send_email_window_open, batches, files, outbox>>
    /\ FrameEnd(status, t_handle)

\* "Import Template": pick_template with the image the dialog returned.
PickTemplate(t) ==
    /\ ~crashed /\ ButtonsEnabled /\ inputs < MaxInputs
    /\ t # template
    /\ image' = TRUE
    /\ template' = t
    /\ inputs' = inputs + 1
    /\ UNCHANGED <<columns, records, rects, current_rect, font_size, config,
                   template_window_open, certificates_window_open,
                   send_email_window_open, batches, files, outbox>>
    /\ FrameEnd(status, t_handle)

\* "Template Layout".
OpenLayout ==
    /\ ~crashed /\ ButtonsEnabled
    /\ template_window_open' = TRUE
    /\ UNCHANGED <<columns, records, rects, current_rect, image, template,
                   font_size, config, certificates_window_open,
                   send_email_window_open, batches, files, outbox, inputs>>
    /\ FrameEnd(status, t_handle)

\* The close button of a window.
CloseWindow(w) ==
    /\ ~crashed
    /\ CASE w = "template" ->
              /\ template_window_open
              /\ template_window_open' = FALSE
              /\ UNCHANGED <<certificates_window_open, send_email_window_open>>
         [] w = "certificates" ->
              /\ certificates_window_open
              /\ certificates_window_open' = FALSE
              /\ UNCHANGED <<template_window_open, send_email_window_open>>
         [] w = "send_email" ->
              /\ send_email_window_open
              /\ send_email_window_open' = FALSE
              /\ UNCHANGED <<template_window_open, certificates_window_open>>
    /\ UNCHANGED <<columns, records, rects, current_rect, image, template,
                   font_size, config, batches, files, outbox, inputs>>
    /\ FrameEnd(status, t_handle)

\* The font-size slider.
Slider(v) ==
    /\ ~crashed /\ ButtonsEnabled /\ inputs < MaxInputs
    /\ v # font_size
    /\ font_size' = v
    /\ inputs' = inputs + 1
    /\ UNCHANGED <<columns, records, rects, current_rect, image, template, config,
                   template_window_open, certificates_window_open,
                   send_email_window_open, batches, files, outbox>>
    /\ FrameEnd(status, t_handle)

\* A drag on the preview, from the press at `from` to the release at `to`:
\* the frame of the press sets p1 and p2 to the pointer, every later frame
\* of the drag sets p2.  Nothing else reads the regions before the release.
Drag(from, to) ==
    /\ ~crashed /\ LayoutShown /\ inputs < MaxInputs
    /\ rects' = [rects EXCEPT ![current_rect + 1] = [p1 |-> from, p2 |-> to]]
    /\ inputs' = inputs + 1
    /\ UNCHANGED <<columns, records, current_rect, image, template, font_size,
                   config, template_window_open, certificates_window_open,
                   send_email_window_open, batches, files, outbox>>
    /\ FrameEnd(status, t_handle)

\* "Clear" of the layout window.
Clear ==
    /\ ~crashed /\ LayoutShown /\ inputs < MaxInputs
    /\ rects' = [rects EXCEPT ![current_rect + 1] = DefaultTextRect]
    /\ inputs' = inputs + 1
    /\ UNCHANGED <<columns, records, current_rect, image, template, font_size,
                   config, template_window_open, certificates_window_open,
                   send_email_window_open, batches, files, outbox>>
    /\ FrameEnd(status, t_handle)

\* The button of column i (0-based) in the layout window.
SelectColumn(i) ==
    /\ ~crashed /\ LayoutShown /\ inputs < MaxInputs
    /\ i \in 0..(Len(columns) - 1)
    /\ i # current_rect
    /\ current_rect' = i
    /\ inputs' = inputs + 1
    /\ UNCHANGED <<columns, records, rects, image, template, font_size, config,
                   template_window_open, certificates_window_open,
                   send_email_window_open, batches, files, outbox>>
    /\ FrameEnd(status, t_handle)

(***************************************************************************)
(* Launching a batch.                                                      *)
(***************************************************************************)
\* A job that reads the slider's value when it runs.
JobFontSizeNow(bt) == font_size

\* The font size a job renders with: the one its closure captured.
JobFontSize(bt) == bt.font_size

\* A build with panic = "abort".
PanicAbortsProcess == TRUE

\* The build keeps Rust's default panic strategy: a panic unwinds the thread
\* it happens in and leaves the process running.
PanicAborts == FALSE

\* What the closure handed to std::thread::spawn moves in, one job per record.
SpawnedBatch(kind, email_index) ==
    [kind |-> kind,
     records |-> records,
     points |-> ScaledPoints(rects),
     regions |-> rects,          \* not captured: what points was computed from
     template |-> template,
     font_size |-> font_size,
     email_index |-> email_index,
     email_creds |-> config,
     jobs |-> [i \in 1..Len(records) |-> "pending"],
     out |-> [i \in 1..Len(records) |-> NoImage],
     written |-> {},
     finished |-> FALSE]

\* What a launch counts against MaxInputs.
LaunchCost == IF batches = <<>> THEN 0 ELSE 2

\* "Create": generate_certificates.
Create ==
    /\ ~crashed /\ ButtonsEnabled /\ inputs + LaunchCost <= MaxInputs
    /\ batches' = Append(batches, SpawnedBatch("create", -1))
    /\ certificates_window_open' = TRUE
    /\ inputs' = inputs + LaunchCost
    /\ UNCHANGED <<columns, records, rects, current_rect, image, template,
                   font_size, config, template_window_open,
                   send_email_window_open, files, outbox>>
    /\ FrameEnd("Creating...", Len(batches'))

\* A send_emails that drops the handle it finds when there is no email column.
send_emails_dropping_handle ==
    LET email_index == EmailPosition(columns)
    IN  IF email_index = -1
        THEN [launch |-> FALSE, status |-> "No email column", t_handle |-> 0,
              batches |-> batches]
        ELSE [launch |-> TRUE, status |-> "Sending...",
              t_handle |-> Len(batches) + 1,
              batches |-> Append(batches, SpawnedBatch("send", email_index))]

\* send_emails, as it leaves the status, the handle and the spawned threads:
\* the let-else returns before the spawn when no header is an email header.
send_emails ==
    LET email_index == EmailPosition(columns)
    IN  IF email_index = -1
        THEN [launch |-> FALSE, status |-> "No email column",
              t_handle |-> t_handle, batches |-> batches]
        ELSE [launch |-> TRUE, status |-> "Sending...",
              t_handle |-> Len(batches) + 1,
              batches |-> Append(batches, SpawnedBatch("send", email_index))]

\* "Send Email": the frame that calls send_emails.
SendEmails ==
    /\ ~crashed /\ ButtonsEnabled
    /\ send_emails.launch => inputs + LaunchCost <= MaxInputs
    /\ send_email_window_open' = TRUE
    /\ batches' = send_emails.batches
    /\ inputs' = IF send_emails.launch THEN inputs + LaunchCost ELSE inputs
    /\ UNCHANGED <<columns, records, rects, current_rect, image, template,
                   font_size, config, template_window_open,
                   certificates_window_open, files, outbox>>
    /\ FrameEnd(send_emails.status, send_emails.t_handle)

(***************************************************************************)
(* The jobs of a batch: the closure of par_iter().for_each.                *)
(***************************************************************************)
Settled == {"done", "failed", "skipped"}

\* generate_certificate for record j of batch b, from the file name to save_as.
\* The indexing of record[1] and the decoding of the template panic the job
\* when they fail; the output directory is taken to be writable.
RenderJob(b, j) ==
    LET bt == batches[b]
        record == bt.records[j]
        img == RenderedImage(record, bt.points, bt.template, JobFontSize(bt))
    IN  /\ ~crashed
        /\ bt.jobs[j] = "pending"
        /\ UNCHANGED <<appVars, status, t_handle, outbox, inputs>>
        /\ IF Len(record) < 2 \/ ~Decodes(bt.template)
           THEN /\ batches' = [batches EXCEPT ![b].jobs[j] = "failed"]
                /\ crashed' = PanicAborts
                /\ UNCHANGED files
           ELSE /\ files' = (FileName(record) :> img) @@ files
                /\ batches' =
                     [batches EXCEPT
                        ![b].jobs[j] =
                            IF bt.kind = "send" THEN "rendered" ELSE "done",
                        ![b].out[j] = img,
                        ![b].written = @ \cup {FileName(record)}]
                /\ UNCHANGED crashed

\* send_email for record j of send batch b: the file is read back and the two
\* addresses are parsed, each panicking the job when it fails; the relay is
\* taken to accept the message.
SendJob(b, j) ==
    LET bt == batches[b]
        record == bt.records[j]
        to == record[bt.email_index + 1]
    IN  /\ ~crashed
        /\ bt.jobs[j] = "rendered"
        /\ UNCHANGED <<appVars, status, t_handle, files, inputs>>
        /\ IF /\ FileName(record) \in DOMAIN files
              /\ IsMailbox(bt.email_creds.username)
              /\ IsMailbox(to)
           THEN /\ outbox' = outbox \cup
                     {[batch |-> b, job |-> j, to |-> to,
                       attachment |-> files[FileName(record)]]}
                /\ batches' = [batches EXCEPT ![b].jobs[j] = "done"]
                /\ UNCHANGED crashed
           ELSE /\ batches' = [batches EXCEPT ![b].jobs[j] = "failed"]
                /\ crashed' = PanicAborts
                /\ UNCHANGED outbox

\* rayon splits n >= 2 records at n / 2 at least once, and each half
\* further or not as the pool decides: records k < j can end in one
\* sequential chunk only when they are on the same side of the first split.
CanShareChunk(n, k, j) ==
    k < j /\ ((j <= n \div 2) \/ (k > n \div 2))

\* The job before j panicked, or was itself never reached, in the chunk that
\* holds them both: the unwinding leaves record j unvisited.
SkipJob(b, j) ==
    /\ ~crashed
    /\ j > 1
    /\ batches[b].jobs[j] = "pending"
    /\ batches[b].jobs[j - 1] \in {"failed", "skipped"}
    /\ CanShareChunk(Len(batches[b].jobs), j - 1, j)
    /\ batches' = [batches EXCEPT ![b].jobs[j] = "skipped"]
    /\ UNCHANGED <<appVars, status, t_handle, files, outbox, crashed, inputs>>

\* for_each returns, or resumes the panic, once every job has settled: the
\* thread of the batch ends either way.
ThreadExit(b) ==
    /\ ~crashed
    /\ ~batches[b].finished
    /\ \A j \in 1..Len(batches[b].jobs) : batches[b].jobs[j] \in Settled
    /\ batches' = [batches EXCEPT ![b].finished = TRUE]
    /\ UNCHANGED <<appVars, status, t_handle, files, outbox, crashed, inputs>>

Next ==
    \/ Tick
    \/ \E f \in CsvFiles : ImportCsv(f)
    \/ \E t \in TemplateFiles : PickTemplate(t)
    \/ OpenLayout
    \/ \E w \in {"template", "certificates", "send_email"} : CloseWindow(w)
    \/ \E v \in FontSizes : Slider(v)
    \/ \E from \in PointerPositions : \E to \in PointerPositions : Drag(from, to)
    \/ Clear
    \/ \E i \in 0..2 : SelectColumn(i)
    \/ Create
    \/ SendEmails
    \/ \E b \in 1..Len(batches) : \E j \in 1..Len(batches[b].jobs) : RenderJob(b, j)
    \/ \E b \in 1..Len(batches) : \E j \in 1..Len(batches[b].jobs) : SendJob(b, j)
    \/ \E b \in 1..Len(batches) : \E j \in 1..Len(batches[b].jobs) : SkipJob(b, j)
    \/ \E b \in 1..Len(batches) : ThreadExit(b)

Spec == Init /\ [][Next]_vars

(***************************************************************************)
(* The claims.                                                             *)
(***************************************************************************)
BatchIds == 1..Len(batches)

JobIds(b) == 1..Len(batches[b].jobs)

\* Job j of batch b has been through generate_certificate to its end.
Rendered(b, j) == batches[b].jobs[j] = "rendered" \/ batches[b].out[j] # NoImage

AllDone(b) == \A j \in JobIds(b) : batches[b].jobs[j] = "done"

\* C1: for a batch launched over N records there are N jobs, one per record;
\* when the batch has ended without a fatal error each of them has run to its
\* end; and no job's output depends on another job's side effects: the image
\* a job mails is the image that job rendered.
C1_JobsOncePerRecordIndependent ==
    /\ \A b \in BatchIds :
         /\ Len(batches[b].jobs) = Len(batches[b].records)
         /\ (/\ batches[b].finished
             /\ \A j \in JobIds(b) : batches[b].jobs[j] # "failed")
            => AllDone(b)
    /\ \A m \in outbox : m.attachment = batches[m.batch].out[m.job]

\* C2 as claimed: a frame reports "Finished!" and clears the handle only when
\* no job of any batch launched so far is still unsettled.
C2_FinishedOnlyWhenEveryBatchSettled ==
    [][(t_handle # 0 /\ t_handle' = 0)
         => \A b \in 1..Len(batches') : \A j \in 1..Len(batches'[b].jobs) :
               batches'[b].jobs[j] \in Settled]_vars

\* C2 as amended: a launch returns with every job of the new batch still to
\* run and holds its handle; the handle held is always that of the batch
\* launched last; a frame clears it, reporting "Finished!", only when the
\* thread of that batch has ended, and the thread of a batch ends only when
\* every job of that batch has settled.  An earlier batch, whose handle the
\* later launch replaced, may still be running.
C2_FinishedOnlyWhenHeldBatchSettled ==
    [][/\ Len(batches') > Len(batches)
          => /\ t_handle' = Len(batches')
             /\ ~batches'[Len(batches')].finished
             /\ \A j \in 1..Len(batches'[Len(batches')].jobs) :
                   batches'[Len(batches')].jobs[j] = "pending"
       /\ t_handle' # 0 => t_handle' = Len(batches')
       /\ \A b \in 1..Len(batches') :
             batches'[b].finished
             => \A j \in 1..Len(batches'[b].jobs) : batches'[b].jobs[j] \in Settled
       /\ (t_handle # 0 /\ t_handle' = 0)
          => /\ status' = "Finished!"
             /\ batches'[t_handle].finished
             /\ \A j \in 1..Len(batches'[t_handle].jobs) :
                   batches'[t_handle].jobs[j] \in Settled
       /\ (status' = "Finished!" /\ status # "Finished!")
          => (t_handle # 0 /\ t_handle' = 0)]_vars

\* C2's case: the frame has reported "Finished!" for the second batch while a
\* job of the first batch has not run yet.
C2_Witness ==
    /\ status = "Finished!"
    /\ t_handle = 0
    /\ Len(batches) = 2
    /\ batches[2].finished
    /\ batches[2].jobs # <<>>
    /\ \E j \in JobIds(1) : batches[1].jobs[j] = "pending"

\* The (first field, second field) pairs of the records of batch b.
FieldPairs(b) ==
    {<<batches[b].records[j][1], batches[b].records[j][2]>> : j \in JobIds(b)}

\* "{first field}-{second field}.png" for record j of batch b.
ExpectedName(b, j) ==
    batches[b].records[j][1] \o <<"-">> \o batches[b].records[j][2]
    \o <<".", "p", "n", "g">>

\* What C3 says of every batch that ended with every job complete, but for
\* the count: each record has its file in the output directory, named
\* "{first field}-{second field}.png", and the batch wrote no other file.
FilesAsNamed(b) ==
    /\ \A j \in JobIds(b) : ExpectedName(b, j) \in DOMAIN files
    /\ batches[b].written = {ExpectedName(b, j) : j \in JobIds(b)}
    /\ \A j, k \in JobIds(b) :
          (/\ batches[b].records[j][1] = batches[b].records[k][1]
           /\ batches[b].records[j][2] = batches[b].records[k][2])
          => ExpectedName(b, j) = ExpectedName(b, k)

\* C3 as claimed: ... and the number of files the batch produced is the
\* number of distinct (first field, second field) pairs.
C3_FilesCountDistinctPairs ==
    \A b \in BatchIds :
        (batches[b].finished /\ AllDone(b))
        => /\ FilesAsNamed(b)
           /\ Cardinality(batches[b].written) = Cardinality(FieldPairs(b))

\* C3 as amended: ... and the number of files the batch produced is the
\* number of distinct names "{first field}-{second field}.png", which is at
\* most the number of distinct pairs: ("a-b", "c") and ("a", "b-c") are
\* written to the same file.
C3_FilesCountDistinctNames ==
    \A b \in BatchIds :
        (batches[b].finished /\ AllDone(b))
        => /\ FilesAsNamed(b)
           /\ Cardinality(batches[b].written)
                = Cardinality({ExpectedName(b, j) : j \in JobIds(b)})
           /\ Cardinality(batches[b].written) <= Cardinality(FieldPairs(b))

\* C3's case: a batch ended with every job complete, two of its records
\* with the same first two fields and another with a different pair of the
\* same name.
C3_Witness ==
    \E b \in BatchIds :
        /\ batches[b].finished
        /\ AllDone(b)
        /\ Cardinality(FieldPairs(b)) = 2
        /\ Len(batches[b].records) = 3
        /\ Cardinality(batches[b].written) = 1

\* The columns job j of batch b painted, and the fields the zip pairs with a
\* region.
PaintedCols(b, j) ==
    {batches[b].out[j].paints[k].col : k \in 1..Len(batches[b].out[j].paints)}

ZippedCols(b, j) ==
    1..MinOf(Len(batches[b].records[j]), Len(batches[b].regions))

\* C4: for every column whose region is unset (p1 = p2 = origin),
\* generate_certificate paints nothing for that field and raises no error:
\* the fields whose region has its top-left corner off the origin are still
\* painted and the output file is still written; a job of a Create batch
\* fails only on a template that does not decode or a record of one field.
C4_UnsetRegionSkipped ==
    \A b \in BatchIds : \A j \in JobIds(b) :
        /\ Rendered(b, j)
           => /\ \A i \in ZippedCols(b, j) :
                    batches[b].regions[i] = DefaultTextRect
                    => i \notin PaintedCols(b, j)
              /\ \A i \in ZippedCols(b, j) :
                    PosMin(batches[b].regions[i].p1, batches[b].regions[i].p2)
                       # Origin
                    => i \in PaintedCols(b, j)
              /\ ExpectedName(b, j) \in batches[b].written
              /\ ExpectedName(b, j) \in DOMAIN files
        /\ (batches[b].kind = "create" /\ batches[b].jobs[j] = "failed")
           => (~Decodes(batches[b].template) \/ Len(batches[b].records[j]) < 2)

\* C4's case: a job has rendered a record one field of which has an unset
\* region, and another field of which was painted.
C4_Witness ==
    \E b \in BatchIds : \E j \in JobIds(b) :
        /\ Rendered(b, j)
        /\ \E i \in ZippedCols(b, j) : batches[b].regions[i] = DefaultTextRect
        /\ PaintedCols(b, j) # {}

\* v * 2.5, and the smaller of two numbers, written out.
TwoAndAHalfTimes(v) == (5 * v) \div 2

Smaller(a, b) == IF a < b THEN a ELSE b

\* C5: for every region (p1, p2) the scaler yields top-left =
\* (min(p1.x, p2.x), min(p1.y, p2.y)) x 2.5 and width = |p1.x - p2.x| x 2.5,
\* the same with p1 and p2 swapped, and the list of scaled regions has the
\* length and the order of the list of regions.
C5_ScalerNormalizes ==
    \A b \in BatchIds :
        /\ Len(batches[b].points) = Len(batches[b].regions)
        /\ \A i \in 1..Len(batches[b].regions) :
              LET r == batches[b].regions[i]
                  d == r.p1.x - r.p2.x
              IN  /\ batches[b].points[i][1] =
                        Pos2(TwoAndAHalfTimes(Smaller(r.p1.x, r.p2.x)),
                             TwoAndAHalfTimes(Smaller(r.p1.y, r.p2.y)))
                  /\ batches[b].points[i][2] =
                        TwoAndAHalfTimes(IF d < 0 THEN 0 - d ELSE d)
                  /\ ScaledRegion([p1 |-> r.p2, p2 |-> r.p1]) = batches[b].points[i]

\* C5's case: a batch was launched with a region dragged from its top-right
\* corner to its bottom-left one.
C5_Witness ==
    \E b \in BatchIds : \E i \in 1..Len(batches[b].regions) :
        /\ batches[b].regions[i].p1.x > batches[b].regions[i].p2.x
        /\ batches[b].regions[i].p1.y < batches[b].regions[i].p2.y

SomeJobFailed(b) == \E j \in JobIds(b) : batches[b].jobs[j] = "failed"

\* C7 as claimed: once a job of a batch has failed the process is gone.
C7_FailedJobAbortsProcess ==
    \A b \in BatchIds : SomeJobFailed(b) => crashed

\* C7 as amended: no operation of the interactive context cancels a launched
\* batch (a frame changes no job of a batch, a settled job stays as it is, and
\* a record goes unvisited only after a job of its batch has panicked).  A job
\* that hits an unrecoverable error panics, and the panic ends the job and,
\* when the other jobs have settled, the thread of the batch: the process is
\* not aborted, the application keeps running, and the frame that finds the
\* thread ended reports "Finished!" as it does for a batch without a failure.
C7_FailedJobLeavesProcessRunning ==
    [][/\ Len(batches') >= Len(batches)
       /\ \A b \in 1..Len(batches) :
             /\ (appVars' # appVars \/ status' # status \/ t_handle' # t_handle)
                => batches'[b] = batches[b]
             /\ \A j \in 1..Len(batches[b].jobs) :
                   /\ batches[b].jobs[j] \in Settled
                      => batches'[b].jobs[j] = batches[b].jobs[j]
                   /\ (batches'[b].jobs[j] = "skipped"
                       /\ batches[b].jobs[j] # "skipped")
                      => SomeJobFailed(b)
                   /\ (batches'[b].jobs[j] = "failed"
                       /\ batches[b].jobs[j] # "failed")
                      => ~crashed'
             /\ (batches'[b].finished /\ ~batches[b].finished)
                => \A j \in 1..Len(batches[b].jobs) : batches[b].jobs[j] \in Settled
       /\ (t_handle # 0 /\ t_handle' = 0 /\ SomeJobFailed(t_handle))
          => (status' = "Finished!" /\ ~crashed')]_vars

\* C7's case: a job of the batch failed, its thread ended, and the
\* application, still running, has reported "Finished!".
C7_Witness ==
    /\ ~crashed
    /\ status = "Finished!"
    /\ t_handle = 0
    /\ Len(batches) = 1
    /\ batches[1].finished
    /\ SomeJobFailed(1)

\* C8: the records, scaled regions, template bytes and font size of a batch
\* are the values of the launch and no step changes them: a job renders its
\* record with them, whatever was imported, picked, dragged, cleared or slid
\* since.
C8_BatchReadsItsCaptures ==
    [][/\ Len(batches') > Len(batches)
          => /\ batches'[Len(batches')].records = records
             /\ batches'[Len(batches')].points = ScaledPoints(rects)
             /\ batches'[Len(batches')].template = template
             /\ batches'[Len(batches')].font_size = font_size
       /\ \A b \in 1..Len(batches) :
             /\ batches'[b].records = batches[b].records
             /\ batches'[b].points = batches[b].points
             /\ batches'[b].template = batches[b].template
             /\ batches'[b].font_size = batches[b].font_size
             /\ \A j \in 1..Len(batches[b].jobs) :
                   batches'[b].out[j] # batches[b].out[j]
                   => /\ batches'[b].out[j] =
                           [template |-> batches[b].template,
                            font_size |-> batches[b].font_size,
                            paints |-> DrawFields(batches[b].records[j],
                                                  batches[b].points, 1)]
                      /\ files'[ExpectedName(b, j)] = batches'[b].out[j]]_vars

\* C8's case: a batch is in flight, one job rendered and one still to run,
\* and the template or the font size of the application is no longer the one
\* the batch captured.
C8_Witness ==
    \E b \in BatchIds :
        /\ ~batches[b].finished
        /\ \E j \in JobIds(b) : Rendered(b, j)
        /\ \E j \in JobIds(b) : batches[b].jobs[j] = "pending"
        /\ (batches[b].template # template \/ batches[b].font_size # font_size)

\* C9: for every (field value, scaled region) pair of a record, in column
\* order, the field is painted at the region's scaled top-left point within
\* the region's scaled width exactly when the two corners of the region are
\* not both at the origin.
C9_PaintedUnlessBothCornersAtOrigin ==
    \A b \in BatchIds : \A j \in JobIds(b) :
        Rendered(b, j)
        => /\ \A i \in ZippedCols(b, j) :
                 (batches[b].regions[i] # DefaultTextRect)
                    <=> (i \in PaintedCols(b, j))
           /\ \A k \in 1..Len(batches[b].out[j].paints) :
                 LET p == batches[b].out[j].paints[k]
                 IN  /\ p.position = batches[b].points[p.col][1]
                     /\ p.width = batches[b].points[p.col][2]
                     /\ k > 1 => batches[b].out[j].paints[k - 1].col < p.col

\* C10: in a send-all batch every message goes to the address in its
\* record's email column, after that record's certificate file was written,
\* and carries the image rendered from that same record.
C10_MailCarriesOwnCertificate ==
    \A m \in outbox :
        LET bt == batches[m.batch]
            record == bt.records[m.job]
        IN  /\ m.to = record[bt.email_index + 1]
            /\ ExpectedName(m.batch, m.job) \in bt.written
            /\ m.attachment =
                  RenderedImage(record, bt.points, bt.template, bt.font_size)

\* The step is the frame of a click on "Send Email".
IsSendEmailsStep == ~crashed /\ ButtonsEnabled /\ send_email_window_open'

\* C11: when no column header is "email" in any letter case or the Arabic
\* email header, send_emails launches no batch, leaves the handle as it found
\* it and sets the status to "No email column"; the frame of the click spawns
\* no thread, writes no certificate and sends no message, and it ends with
\* that status and handle unless its own poll finds the batch of an earlier
\* launch finished.
C11_NoEmailColumnLaunchesNothing ==
    [][(IsSendEmailsStep /\ EmailPosition(columns) = -1)
       => /\ ~send_emails.launch
          /\ send_emails.batches = batches
          /\ send_emails.t_handle = t_handle
          /\ send_emails.status = "No email column"
          /\ batches' = batches
          /\ files' = files
          /\ outbox' = outbox
          /\ \/ status' = "No email column" /\ t_handle' = t_handle
             \/ /\ t_handle # 0 /\ batches[t_handle].finished
                /\ status' = "Finished!" /\ t_handle' = 0]_vars

\* C11's case: "Send Email" was clicked on a CSV with no email column while
\* the batch of an earlier launch still ran; its handle is still held.
C11_Witness ==
    /\ columns # <<>>
    /\ EmailPosition(columns) = -1
    /\ send_email_window_open
    /\ status = "No email column"
    /\ t_handle # 0
    /\ ~batches[t_handle].finished

\* C12: the regions are as many as the columns of the loaded CSV, and once
\* a CSV is loaded the selected index is an index of both.
C12_RegionsMatchColumns ==
    /\ Len(rects) = Len(columns)
    /\ columns # <<>>
          => current_rect < Len(rects) /\ current_rect < Len(columns)
=============================================================================
